---- MODULE Spec2Model ----
(***************************************************************************)
(* Model of jv::BoundedPoly (src/src/jv/bounded-poly.hpp): a bounded,      *)
(* heap-free container holding one polymorphic value in inline storage,    *)
(* together with its two mover strategies (UniversalMover, VirtualMover).  *)
(* The stored types are those of the test-suite (tests/main.cpp): Base     *)
(* with one owning field i, Derived : Base with a second owning field f.   *)
(***************************************************************************)
EXTENDS Integers, Sequences, FiniteSets, TLC

\* ---------------------------------------------------------------- bounds
MaxInt == 1      \* payload integers are 1..MaxInt
MaxOps == 4      \* operations per behaviour, teardowns not counted
MaxSize == 4     \* sizeof of the types given to the type traits is 1..MaxSize

\* ------------------------------------------------------------- vocabulary
Conts == {"a", "b"}               \* BoundedPoly instances
Tmp == "tmp"                      \* the transient buffer of swap
Locs == Conts \cup {Tmp}
Types == {"Base", "Derived"}
Kinds == {"universal", "virtual"} \* the Mover template argument
Ints == 1..MaxInt
NULL == 0                         \* an empty unique_ptr
NoField == 0 - 1                  \* the type has no such member
Garbage == 0 - 2                  \* bytes read outside a live object
StaticMover == "static"           \* the stateless mover has no binding
Unbound == "unbound"              \* no container, hence no mover, yet
\* what a build may make of a read of an object outside its lifetime: the
\* vptr is still the most derived one or already Base's, the member bytes
\* are still there or already reset
UBChoices == [vptr : BOOLEAN, bytes : BOOLEAN]
Defined == [vptr |-> FALSE, bytes |-> FALSE]
\* relocating between two distinct containers reads a live object only
UBFor(c, o) == IF c = o THEN UBChoices ELSE {Defined}

VARIABLES kind, status, storage, mover, ctorN, dtorN, valueOps, onlyValueOps,
          events, lastOp, hist, nOps, trait, twin
vars == <<kind, status, storage, mover, ctorN, dtorN, valueOps, onlyValueOps,
          events, lastOp, hist, nOps, trait, twin>>

\* ------------------------------------------------------------ type traits
\* A type as the traits see it: sizeof, alignof (a power of two dividing
\* sizeof) and std::is_trivial.
Aligns == {al \in {1, 2, 4, 8} : al <= MaxSize}
Layouts == {l \in [size : 1..MaxSize, align : Aligns, trivial : BOOLEAN] :
              l.size % l.align = 0}

\* variant: a value that fills the storage exactly is refused
is_storable_strict(T, Storage) ==
  T.size < Storage.size /\ (Storage.align % T.align = 0) /\ Storage.trivial

\* is_storable<T, Storage>::value
is_storable(T, Storage) ==
  T.size <= Storage.size /\ (Storage.align % T.align = 0) /\ Storage.trivial

\* The interfaces of the is_movable test: Base and the unrelated NotBase.
Bases == {"Base", "NotBase"}

\* A mover as the traits see it: is_nothrow_destructible, the base its
\* call operator takes and whether that operator is noexcept, is_empty,
\* is_nothrow_copy_assignable, is_nothrow_constructible from A const *.
Movers == [destructible : BOOLEAN, takes : Bases, call_noexcept : BOOLEAN,
           empty : BOOLEAN, copy_assignable : BOOLEAN, witness_ctor : BOOLEAN]

UniversalMover == [destructible |-> TRUE, takes |-> "Base", call_noexcept |-> TRUE,
                   empty |-> FALSE, copy_assignable |-> TRUE, witness_ctor |-> TRUE]

VirtualMover == [destructible |-> TRUE, takes |-> "Base", call_noexcept |-> TRUE,
                 empty |-> TRUE, copy_assignable |-> TRUE, witness_ctor |-> FALSE]

\* A candidate subtype: its layout, the interface it derives from and
\* std::is_nothrow_move_constructible.
Subtypes == [layout : Layouts, base : Bases, nothrow_move : BOOLEAN]

\* std::is_nothrow_invocable_r_v<void, Mover, T &&, void *>
is_nothrow_invocable(Mover, T) == Mover.takes = T /\ Mover.call_noexcept

\* variant: an empty mover too must be assignable and witness-constructible
is_movable_no_empty_case(T, Mover, A) ==
  /\ Mover.destructible
  /\ is_nothrow_invocable(Mover, T)
  /\ A.base = T
  /\ Mover.copy_assignable /\ Mover.witness_ctor

\* is_movable<T, Mover, A>::value
is_movable(T, Mover, A) ==
  /\ Mover.destructible
  /\ is_nothrow_invocable(Mover, T)
  /\ A.base = T
  /\ (Mover.empty \/ (Mover.copy_assignable /\ Mover.witness_ctor))

\* BoundedPoly<Storage, Base, Mover>: the instantiations its static_asserts
\* accept, for a Base of size and alignment 1
BaseLayout == [size |-> 1, align |-> 1, trivial |-> FALSE]

Configs ==
  {cfg \in [storage : Layouts, mover : Movers] :
     /\ is_storable(BaseLayout, cfg.storage)
     /\ cfg.mover.destructible
     /\ is_nothrow_invocable(cfg.mover, "Base")}

\* variant: the storage is not consulted
can_handle_no_storable(cfg, T) ==
  T.nothrow_move /\ T.base = "Base" /\ is_movable("Base", cfg.mover, T)

\* variant: the subtype's move constructor is not consulted
can_handle_no_nothrow_move(cfg, T) ==
  /\ T.base = "Base" /\ is_movable("Base", cfg.mover, T)
  /\ is_storable(T.layout, cfg.storage)

\* BoundedPoly::can_handle<T>::value
can_handle(cfg, T) ==
  /\ T.nothrow_move /\ T.base = "Base"
  /\ is_movable("Base", cfg.mover, T) /\ is_storable(T.layout, cfg.storage)

\* how Derived is constructible from Args...: not at all, by a constructor
\* that may throw, or by a noexcept one
Constructible == {"no", "throwing", "nothrow"}

\* the static_asserts of BoundedPoly(Derived &&) and operator=(Derived)
admits_value(cfg, T) == can_handle(cfg, T)

\* variant: in-place construction asks for a noexcept constructor
admits_in_place_nothrow(cfg, T, how) == how = "nothrow" /\ can_handle(cfg, T)

\* the static_asserts of BoundedPoly(in_place_type_t<Derived>, Args &&...)
admits_in_place(cfg, T, how) == how # "no" /\ can_handle(cfg, T)

\* the static_asserts of emplace<Derived>(args...)
admits_emplace(cfg, T, how) == can_handle(cfg, T) /\ how = "nothrow"

NoTrait == [name |-> "none"]

\* ------------------------------------------------------------ stored types
\* struct Base { unique_ptr<int> i; };  struct Derived : Base { unique_ptr<float> f; };
HasField(T, fld) == IF fld = "i" THEN T \in Types ELSE T = "Derived"

FieldOr(T, fld, x) == IF HasField(T, fld) THEN x ELSE NoField

\* Base(), Base(int), Derived(), Derived(int, float)
ArgsOf(T) ==
  IF T = "Base" THEN {<<>>} \cup {<<x>> : x \in Ints}
  ELSE {<<>>} \cup {<<x, y>> : x \in Ints, y \in Ints}

New(T, args) ==
  IF T = "Base"
  THEN [type |-> "Base", i |-> IF Len(args) = 0 THEN NULL ELSE args[1],
        f |-> NoField, life |-> "live"]
  ELSE [type |-> "Derived", i |-> IF Len(args) = 0 THEN NULL ELSE args[1],
        f |-> IF Len(args) = 0 THEN NULL ELSE args[2], life |-> "live"]

RawSlot == [type |-> "none", i |-> NoField, f |-> NoField, life |-> "raw"]

\* the observable part of a stored value: dynamic type and state
Value(slot) == [type |-> slot.type, i |-> slot.i, f |-> slot.f]

\* ----------------------------------------------------------- object moves
\* What the move constructor of A reads from member fld of src.
ReadField(src, fld, inPlace, ub) ==
  IF src.life = "live" /\ ~inPlace
  THEN IF HasField(src.type, fld) THEN src[fld] ELSE Garbage
  ELSE IF src.life = "live"
       THEN IF ~HasField(src.type, fld) THEN Garbage
            ELSE IF ub.bytes THEN src[fld] ELSE NULL
       ELSE IF ~HasField(src.type, fld) THEN Garbage
            ELSE IF ub.bytes /\ src[fld] # NULL THEN Garbage ELSE NULL

\* variant: the object is rebuilt with the source's own dynamic type
MovedTo_dynamic(A, src, inPlace, ub) ==
  [type |-> src.type,
   i |-> FieldOr(src.type, "i", ReadField(src, "i", inPlace, ub)),
   f |-> FieldOr(src.type, "f", ReadField(src, "f", inPlace, ub)),
   life |-> "live"]

\* new (dst) A(std::move(static_cast<A &&>(src))): the object built at dst
MovedTo(A, src, inPlace, ub) ==
  [type |-> A,
   i |-> FieldOr(A, "i", ReadField(src, "i", inPlace, ub)),
   f |-> FieldOr(A, "f", ReadField(src, "f", inPlace, ub)),
   life |-> "live"]

\* ... and what it leaves behind in src: the members A knows are emptied
MovedFrom(A, src) ==
  [src EXCEPT !.i = IF HasField(A, "i") /\ HasField(src.type, "i") THEN NULL ELSE @,
              !.f = IF HasField(A, "f") /\ HasField(src.type, "f") THEN NULL ELSE @]

\* --------------------------------------------------------- machine records
\* m is the part of the state the handlers thread through their statements.
Cur == [kind |-> kind, storage |-> storage, mover |-> mover, ctorN |-> ctorN,
        dtorN |-> dtorN, events |-> <<>>]

Log(m, e) == [m EXCEPT !.events = Append(@, e)]

\* get().~Base(): the virtual destructor of the object at loc
DtorRun(m, loc) ==
  Log([m EXCEPT !.storage[loc].life = "dead", !.dtorN[loc] = @ + 1],
      [ev |-> "dtor", loc |-> loc, on |-> m.storage[loc].life])

\* new (&storage_) T(...): whatever was at loc is overwritten
PlacementNew(m, loc, obj) ==
  Log([m EXCEPT !.storage[loc] = obj, !.ctorN[loc] = @ + 1],
      [ev |-> "ctor", loc |-> loc, on |-> m.storage[loc].life])

\* MoverStorage{static_cast<Derived const *>(nullptr)}
Bind(knd, T) == IF knd = "universal" THEN T ELSE StaticMover

\* the local `MoverStorage mover{...}` of operator= and emplace, and the
\* mem-initializer of the constructors: built while storage_ is untouched
DeriveMover(m, c, T) ==
  Log(m, [ev |-> "derive", loc |-> c, on |-> m.storage[c].life])

\* the concrete type a mover move-constructs when invoked on src
RelocType(bound, src, ub) ==
  IF bound # StaticMover THEN bound
  ELSE IF src.life = "live" \/ ~ub.vptr THEN src.type ELSE "Base"

\* variant: relocation also ends the lifetime of the source object
Invoke_destroys_source(m, bound, from, to, ub) ==
  LET src == m.storage[from]
      A == RelocType(bound, src, ub)
      obj == MovedTo(A, src, from = to, ub)
      m1 == [m EXCEPT !.storage[from] = MovedFrom(A, src)]
      m2 == Log(m1, [ev |-> "move", loc |-> from, to |-> to,
                     with |-> bound, dyn |-> src.type, as |-> A,
                     on |-> IF src.life # "live" THEN src.life
                            ELSE IF A = src.type THEN "exact" ELSE "sliced"])
      m3 == PlacementNew(m2, to, obj)
  IN IF from = to THEN m3 ELSE DtorRun(m3, from)

\* mover(std::move(*from), &to)
Invoke(m, bound, from, to, ub) ==
  LET src == m.storage[from]
      A == RelocType(bound, src, ub)
      obj == MovedTo(A, src, from = to, ub)
      m1 == [m EXCEPT !.storage[from] = MovedFrom(A, src)]
      m2 == Log(m1, [ev |-> "move", loc |-> from, to |-> to,
                     with |-> bound, dyn |-> src.type, as |-> A,
                     on |-> IF src.life # "live" THEN src.life
                            ELSE IF A = src.type THEN "exact" ELSE "sliced"])
  IN PlacementNew(m2, to, obj)

copy_mover(m, c, mv) ==
  Log([m EXCEPT !.mover[c] = IF m.kind = "universal" THEN mv ELSE @],
      [ev |-> "copy_mover", loc |-> c, on |-> m.storage[c].life])

\* variant: the movers are not exchanged
swap_mover_forgotten(m, c, o) == m

swap_mover(m, c, o) ==
  IF m.kind = "universal"
  THEN [m EXCEPT !.mover = [@ EXCEPT ![c] = m.mover[o], ![o] = m.mover[c]]]
  ELSE m

\* ---------------------------------------------------------------- handlers
\* variant: the argument is move-constructed as a Base
ctor_value_sliced(m, c, T, args) ==
  LET m1 == [DeriveMover(m, c, T) EXCEPT !.mover[c] = Bind(m.kind, T)]
  IN PlacementNew(m1, c, MovedTo("Base", New(T, args), FALSE, Defined))

\* BoundedPoly(Derived &&derived)
ctor_value(m, c, T, args) ==
  LET m1 == [DeriveMover(m, c, T) EXCEPT !.mover[c] = Bind(m.kind, T)]
  IN PlacementNew(m1, c, MovedTo(T, New(T, args), FALSE, Defined))

\* BoundedPoly(std::in_place_type_t<Derived>, Args &&... args)
ctor_in_place(m, c, T, args) ==
  LET m1 == [DeriveMover(m, c, T) EXCEPT !.mover[c] = Bind(m.kind, T)]
  IN PlacementNew(m1, c, New(T, args))

\* BoundedPoly(BoundedPoly &&other)
ctor_move(m, c, o, ub) ==
  LET m1 == [m EXCEPT !.mover[c] = m.mover[o]]
  IN Invoke(m1, m1.mover[c], o, c, ub)

\* variant: the stored value is overwritten without get().~Base()
assign_value_no_destroy(m, c, T, args) ==
  LET m1 == DeriveMover(m, c, T)
      m3 == copy_mover(m1, c, Bind(m.kind, T))
  IN PlacementNew(m3, c, MovedTo(T, New(T, args), FALSE, Defined))

\* operator=(Derived derived)
assign_value(m, c, T, args) ==
  LET m1 == DeriveMover(m, c, T)
      m2 == DtorRun(m1, c)
      m3 == copy_mover(m2, c, Bind(m.kind, T))
  IN PlacementNew(m3, c, MovedTo(T, New(T, args), FALSE, Defined))

\* operator=(BoundedPoly &&other)
assign_move(m, c, o, ub) ==
  LET m1 == DtorRun(m, c)
      m2 == copy_mover(m1, c, m1.mover[o])
  IN Invoke(m2, m2.mover[c], o, c, ub)

\* variant: the stored value is destroyed before the mover is derived
emplace_destroy_first(m, c, T, args) ==
  LET m1 == DtorRun(m, c)
      m2 == DeriveMover(m1, c, T)
      m3 == copy_mover(m2, c, Bind(m.kind, T))
  IN PlacementNew(m3, c, New(T, args))

\* variant: the new value is built over the old one, which is never destroyed
emplace_no_destroy(m, c, T, args) ==
  LET m1 == DeriveMover(m, c, T)
      m3 == copy_mover(m1, c, Bind(m.kind, T))
  IN PlacementNew(m3, c, New(T, args))

\* emplace<Derived>(args...)
emplace(m, c, T, args) ==
  LET m1 == DeriveMover(m, c, T)
      m2 == DtorRun(m1, c)
      m3 == copy_mover(m2, c, Bind(m.kind, T))
  IN PlacementNew(m3, c, New(T, args))

\* ~BoundedPoly()
dtor(m, c) == DtorRun(m, c)

\* get(), operator*, operator->: the stored object seen through Base &
get(m, c) == Value(m.storage[c])

\* variant: tmp is relocated into other with other's mover
swap_wrong_mover(m, c, o, ub) ==
  LET m1 == Invoke(m, m.mover[c], c, Tmp, ub)
      m2 == Invoke(m1, m1.mover[o], o, c, ub)
      m3 == Invoke(m2, m2.mover[o], Tmp, o, ub)
      m4 == DtorRun(m3, Tmp)
      m5 == swap_mover(m4, c, o)
  IN [m5 EXCEPT !.storage[Tmp] = RawSlot]

\* variant: other is relocated into this before this is saved in tmp
swap_clobber(m, c, o, ub) ==
  LET m1 == Invoke(m, m.mover[o], o, c, ub)
      m2 == Invoke(m1, m1.mover[c], c, Tmp, ub)
      m3 == Invoke(m2, m2.mover[c], Tmp, o, ub)
      m4 == DtorRun(m3, Tmp)
      m5 == swap_mover(m4, c, o)
  IN [m5 EXCEPT !.storage[Tmp] = RawSlot]

\* variant: the final destructor call names other's storage, not tmp
swap_destroys_other(m, c, o, ub) ==
  LET m1 == Invoke(m, m.mover[c], c, Tmp, ub)
      m2 == Invoke(m1, m1.mover[o], o, c, ub)
      m3 == Invoke(m2, m2.mover[c], Tmp, o, ub)
      m4 == DtorRun(m3, o)
      m5 == swap_mover(m4, c, o)
  IN [m5 EXCEPT !.storage[Tmp] = RawSlot]

\* swap(BoundedPoly &other); Storage tmp is released on return
swap(m, c, o, ub) ==
  LET m1 == Invoke(m, m.mover[c], c, Tmp, ub)
      m2 == Invoke(m1, m1.mover[o], o, c, ub)
      m3 == Invoke(m2, m2.mover[c], Tmp, o, ub)
      m4 == DtorRun(m3, Tmp)
      m5 == swap_mover(m4, c, o)
  IN [m5 EXCEPT !.storage[Tmp] = RawSlot]

\* ------------------------------------------------------------------ state
TotalCtor == ctorN["a"] + ctorN["b"] + ctorN[Tmp]
TotalDtor == dtorN["a"] + dtorN["b"] + dtorN[Tmp]

Alive(c) == status[c] = "alive"

\* containers come into existence in the order a, b
Before(c) == IF c = "a" THEN {} ELSE {"a"}

Fresh(c) == status[c] = "none" /\ \A p \in Before(c) : status[p] # "none"

NoHist == [n |-> 0, snap |-> <<>>]

Snap(c, o) == <<Value(storage[c]), mover[c], Value(storage[o]), mover[o]>>

Commit(r) ==
  /\ storage' = r.storage
  /\ mover' = r.mover
  /\ ctorN' = r.ctorN
  /\ dtorN' = r.dtorN
  /\ events' = r.events
  /\ UNCHANGED trait

\* A second container set of the other mover kind, given the same operations
\* with the same arguments; NoTwin where there is none.
NoTwin == [kind |-> "none"]

TwinCur == [twin EXCEPT !.events = <<>>]

Shadow(r) == twin' = IF twin = NoTwin THEN twin ELSE r

Op(name, c, o, T, args) ==
  [op |-> name, this |-> c, other |-> o, type |-> T, args |-> args]

Init ==
  /\ kind \in Kinds
  /\ status = [c \in Conts |-> "none"]
  /\ storage = [l \in Locs |-> RawSlot]
  /\ mover = [c \in Conts |-> Unbound]
  /\ ctorN = [l \in Locs |-> 0]
  /\ dtorN = [l \in Locs |-> 0]
  /\ valueOps = [c \in Conts |-> 0]
  /\ onlyValueOps = [c \in Conts |-> TRUE]
  /\ events = <<>>
  /\ lastOp = Op("init", "-", "-", "-", <<>>)
  /\ hist = NoHist
  /\ nOps = 0
  /\ trait = NoTrait
  /\ twin = NoTwin

\* ---------------------------------------------------------------- actions
Construct(c, T, args) ==
  /\ Fresh(c)
  /\ nOps < MaxOps
  /\ nOps' = nOps + 1
  /\ Commit(ctor_value(Cur, c, T, args))
  /\ Shadow(ctor_value(TwinCur, c, T, args))
  /\ status' = [status EXCEPT ![c] = "alive"]
  /\ valueOps' = [valueOps EXCEPT ![c] = @ + 1]
  /\ lastOp' = Op("construct", c, "-", T, args)
  /\ hist' = NoHist
  /\ UNCHANGED <<kind, onlyValueOps>>

ConstructInPlace(c, T, args) ==
  /\ Fresh(c)
  /\ nOps < MaxOps
  /\ nOps' = nOps + 1
  /\ Commit(ctor_in_place(Cur, c, T, args))
  /\ Shadow(ctor_in_place(TwinCur, c, T, args))
  /\ status' = [status EXCEPT ![c] = "alive"]
  /\ valueOps' = [valueOps EXCEPT ![c] = @ + 1]
  /\ lastOp' = Op("in_place", c, "-", T, args)
  /\ hist' = NoHist
  /\ UNCHANGED <<kind, onlyValueOps>>

MoveConstruct(c, o, ub) ==
  /\ Fresh(c)
  /\ Alive(o)
  /\ nOps < MaxOps
  /\ nOps' = nOps + 1
  /\ Commit(ctor_move(Cur, c, o, ub))
  /\ Shadow(ctor_move(TwinCur, c, o, ub))
  /\ status' = [status EXCEPT ![c] = "alive"]
  /\ onlyValueOps' = [onlyValueOps EXCEPT ![c] = FALSE, ![o] = FALSE]
  /\ lastOp' = Op("move_construct", c, o, "-", <<>>)
  /\ hist' = NoHist
  /\ UNCHANGED <<kind, valueOps>>

Assign(c, T, args) ==
  /\ Alive(c)
  /\ nOps < MaxOps
  /\ nOps' = nOps + 1
  /\ Commit(assign_value(Cur, c, T, args))
  /\ Shadow(assign_value(TwinCur, c, T, args))
  /\ valueOps' = [valueOps EXCEPT ![c] = @ + 1]
  /\ lastOp' = Op("assign", c, "-", T, args)
  /\ hist' = NoHist
  /\ UNCHANGED <<kind, status, onlyValueOps>>

AssignMove(c, o, ub) ==
  /\ Alive(c)
  /\ Alive(o)
  /\ nOps < MaxOps
  /\ nOps' = nOps + 1
  /\ Commit(assign_move(Cur, c, o, ub))
  /\ Shadow(assign_move(TwinCur, c, o, ub))
  /\ onlyValueOps' = [onlyValueOps EXCEPT ![c] = FALSE, ![o] = FALSE]
  /\ lastOp' = Op("assign_move", c, o, "-", <<>>)
  /\ hist' = NoHist
  /\ UNCHANGED <<kind, status, valueOps>>

Emplace(c, T, args) ==
  /\ Alive(c)
  /\ nOps < MaxOps
  /\ nOps' = nOps + 1
  /\ Commit(emplace(Cur, c, T, args))
  /\ Shadow(emplace(TwinCur, c, T, args))
  /\ valueOps' = [valueOps EXCEPT ![c] = @ + 1]
  /\ lastOp' = Op("emplace", c, "-", T, args)
  /\ hist' = NoHist
  /\ UNCHANGED <<kind, status, onlyValueOps>>

Swap(c, o, ub) ==
  /\ Alive(c)
  /\ Alive(o)
  /\ nOps < MaxOps
  /\ nOps' = nOps + 1
  /\ Commit(swap(Cur, c, o, ub))
  /\ Shadow(swap(TwinCur, c, o, ub))
  /\ onlyValueOps' = [onlyValueOps EXCEPT ![c] = FALSE, ![o] = FALSE]
  /\ lastOp' = Op("swap", c, o, "-", <<>>)
  /\ hist' = IF lastOp = Op("swap", c, o, "-", <<>>) /\ hist.n = 1
             THEN [hist EXCEPT !.n = 2]
             ELSE [n |-> 1, snap |-> Snap(c, o)]
  /\ UNCHANGED <<kind, status, valueOps>>

Destroy(c) ==
  /\ Alive(c)
  /\ Commit(dtor(Cur, c))
  /\ Shadow(dtor(TwinCur, c))
  /\ status' = [status EXCEPT ![c] = "gone"]
  /\ lastOp' = Op("destroy", c, "-", "-", <<>>)
  /\ hist' = NoHist
  /\ UNCHANGED <<kind, valueOps, onlyValueOps, nOps>>

Next ==
  \/ \E c \in Conts, T \in Types : \E args \in ArgsOf(T) : Construct(c, T, args)
  \/ \E c \in Conts, T \in Types : \E args \in ArgsOf(T) : ConstructInPlace(c, T, args)
  \/ \E c \in Conts, o \in Conts : \E ub \in UBFor(c, o) : MoveConstruct(c, o, ub)
  \/ \E c \in Conts, T \in Types : \E args \in ArgsOf(T) : Assign(c, T, args)
  \/ \E c \in Conts, o \in Conts : \E ub \in UBFor(c, o) : AssignMove(c, o, ub)
  \/ \E c \in Conts, T \in Types : \E args \in ArgsOf(T) : Emplace(c, T, args)
  \/ \E c \in Conts, o \in Conts : \E ub \in UBFor(c, o) : Swap(c, o, ub)
  \/ \E c \in Conts : Destroy(c)

Spec == Init /\ [][Next]_vars

TypeOK ==
  /\ kind \in Kinds
  /\ status \in [Conts -> {"none", "alive", "gone"}]
  /\ \A l \in Locs : storage[l].life \in {"raw", "live", "dead"}
  /\ \A c \in Conts : mover[c] \in Types \cup {StaticMover, Unbound}

\* ============================================================== properties
LastIs(names) == lastOp.op \in names

\* C1: at every operation boundary a container with a stateful mover has the
\* mover bound to exactly the dynamic type of the value in its storage.
C1_MoverBoundToStoredType ==
  kind = "universal" =>
    \A c \in Conts : Alive(c) => mover[c] = storage[c].type

\* two containers of different subtypes have just been swapped
C1_Witness ==
  /\ kind = "universal"
  /\ LastIs({"swap"})
  /\ lastOp.this # lastOp.other
  /\ storage["a"].type # storage["b"].type
  /\ mover["a"] = "Derived"

\* C2: N construct / assign(value) / emplace operations on one container and
\* its teardown run the destructor exactly N times on the values stored in
\* it: N - 1 superseded values while it lives, one more at teardown, and
\* never on an object that was already destroyed.
C2_ExactlyOnceDestruction ==
  /\ \A c \in Conts : onlyValueOps[c] =>
       /\ ctorN[c] = valueOps[c]
       /\ Alive(c) => dtorN[c] = valueOps[c] - 1
       /\ status[c] = "gone" => dtorN[c] = valueOps[c]
  /\ \A k \in 1..Len(events) :
       (events[k].ev = "dtor" /\ events[k].loc \in Conts
          /\ onlyValueOps[events[k].loc]) => events[k].on = "live"

\* a container that went through three value operations and was torn down
C2_Witness ==
  \E c \in Conts :
     /\ status[c] = "gone"
     /\ onlyValueOps[c]
     /\ valueOps[c] = 3
     /\ LastIs({"destroy"})

\* C3: swap destroys every value it supersedes before reusing its storage,
\* so once all containers are torn down the destructor ran once per
\* constructed value.
C3_SwapDestroysSuperseded ==
  /\ LastIs({"swap"}) =>
       \A k \in 1..Len(events) : events[k].ev = "ctor" => events[k].on # "live"
  /\ (\A c \in Conts : status[c] = "gone") => TotalDtor = TotalCtor

\* the operation a step performs is the one recorded in lastOp'
Did(names) == lastOp'.op \in names

\* C4: after move-construct, assign-move or swap the destination has the
\* dynamic type and the state the source had before the operation.
C4_RelocationPreservesIdentity ==
  [][/\ Did({"move_construct", "assign_move", "swap"}) =>
          Value(storage'[lastOp'.this]) = Value(storage[lastOp'.other])
     /\ Did({"swap"}) =>
          Value(storage'[lastOp'.other]) = Value(storage[lastOp'.this])]_vars

\* C5: a.swap(b) on two distinct containers exchanges their values (dynamic
\* type and state) and their movers.
C5_SwapExchanges ==
  [][(Did({"swap"}) /\ lastOp'.this # lastOp'.other) =>
       /\ Value(storage'[lastOp'.this]) = Value(storage[lastOp'.other])
       /\ Value(storage'[lastOp'.other]) = Value(storage[lastOp'.this])
       /\ mover'[lastOp'.this] = mover[lastOp'.other]
       /\ mover'[lastOp'.other] = mover[lastOp'.this]]_vars

\* a was constructed, then given Derived{1,1}, then swapped with b = Base{}
C5_Witness ==
  /\ lastOp = Op("swap", "a", "b", "-", <<>>)
  /\ valueOps["a"] = 2
  /\ valueOps["b"] = 1
  /\ Value(storage["a"]) = [type |-> "Base", i |-> NULL, f |-> NoField]
  /\ Value(storage["b"]) = [type |-> "Derived", i |-> 1, f |-> 1]

\* C6: assign(value) and emplace derive the new mover first, while the
\* container still holds its previous live value and mover; the value is
\* destroyed and the mover replaced only afterwards, and the container
\* returns holding a live value.
C6_MoverDerivedBeforeDestroy ==
  LastIs({"assign", "emplace"}) =>
    /\ Len(events) = 4
    /\ events[1] = [ev |-> "derive", loc |-> lastOp.this, on |-> "live"]
    /\ \A k \in 1..Len(events) :
         events[k].ev \in {"dtor", "copy_mover", "ctor"} => k > 1
    /\ storage[lastOp.this].life = "live"

\* an emplace that changed the stored subtype
C6_Witness ==
  /\ LastIs({"emplace"})
  /\ lastOp.type = "Derived"
  /\ ctorN[lastOp.this] = 2
  /\ events[2].ev = "dtor"

\* C7: a container is never empty: between construction and destruction its
\* storage holds exactly one constructed, not yet destroyed value.
C7_NeverEmpty ==
  \A c \in Conts :
     Alive(c) => storage[c].life = "live" /\ storage[c].type \in Types

\* the source of an assign-move keeps a live, emptied value
C7_Witness ==
  /\ LastIs({"assign_move"})
  /\ lastOp.this # lastOp.other
  /\ Alive(lastOp.other)
  /\ Value(storage[lastOp.other]) = [type |-> "Derived", i |-> NULL, f |-> NULL]
  /\ Value(storage[lastOp.this]) = [type |-> "Derived", i |-> 1, f |-> 1]

\* C8: a container constructed from a T value, or in place from constructor
\* arguments, dereferences to a value of dynamic type T with that state.
C8_ConstructThenGet ==
  LastIs({"construct", "in_place"}) =>
    get(Cur, lastOp.this) = Value(New(lastOp.type, lastOp.args))

\* a container just constructed from Derived{1,1}
C8_Witness ==
  /\ LastIs({"construct"})
  /\ lastOp.type = "Derived"
  /\ lastOp.args = <<1, 1>>
  /\ get(Cur, lastOp.this).type = "Derived"

\* C9: a.swap(b) performed twice restores the dynamic types, values and
\* mover bindings of both containers.
C9_SwapTwiceRestores ==
  hist.n = 2 => Snap(lastOp.this, lastOp.other) = hist.snap

\* two distinct containers of different subtypes, swapped twice
C9_Witness ==
  /\ hist.n = 2
  /\ lastOp.this # lastOp.other
  /\ storage["a"].type = "Derived"
  /\ storage["b"].type = "Base"
  /\ storage["a"].i # storage["b"].i

\* C10: a.swap(a) leaves a with the same dynamic type, value and mover,
\* holding one live value, which teardown destroys exactly once.
C10_SelfSwapTolerated ==
  [][/\ (Did({"swap"}) /\ lastOp'.this = lastOp'.other) =>
          /\ Value(storage'[lastOp'.this]) = Value(storage[lastOp'.this])
          /\ mover'[lastOp'.this] = mover[lastOp'.this]
          /\ kind = "universal" => mover'[lastOp'.this] = storage'[lastOp'.this].type
          /\ storage'[lastOp'.this].life = "live"
     /\ (Did({"destroy"}) /\ LastIs({"swap"}) /\ lastOp.this = lastOp.other
           /\ lastOp'.this = lastOp.this) =>
          /\ events' = <<[ev |-> "dtor", loc |-> lastOp'.this, on |-> "live"]>>
          /\ dtorN'[lastOp'.this] = dtorN[lastOp'.this] + 1]_vars

\* a container holding Derived{1,1} has just been swapped with itself
C10_Witness ==
  /\ LastIs({"swap"})
  /\ lastOp.this = lastOp.other
  /\ Value(storage[lastOp.this]) = [type |-> "Derived", i |-> 1, f |-> 1]

\* ------------------------------------------- the UniversalMover on its own
\* TEST_CASE UniversalMover: a local object (slot "a"), a raw buffer
\* `Storage dst` (slot Tmp) and a mover variable (mover["a"]); no container.
Obj == "a"

InitMover ==
  /\ kind = "universal"
  /\ status = [c \in Conts |-> "none"]
  /\ \E T \in Types : \E args \in ArgsOf(T) :
       storage = [l \in Locs |-> IF l = Obj THEN New(T, args) ELSE RawSlot]
  /\ mover \in [Conts -> Types]
  /\ mover["b"] = "Base"
  /\ ctorN = [l \in Locs |-> 0]
  /\ dtorN = [l \in Locs |-> 0]
  /\ valueOps = [c \in Conts |-> 0]
  /\ onlyValueOps = [c \in Conts |-> TRUE]
  /\ events = <<>>
  /\ lastOp = Op("init", "-", "-", "-", <<>>)
  /\ hist = NoHist
  /\ nOps = 0
  /\ trait = NoTrait
  /\ twin = NoTwin

\* mover = Mover{static_cast<T const *>(nullptr)}
MoverRebind(T) ==
  /\ nOps < MaxOps
  /\ nOps' = nOps + 1
  /\ mover' = [mover EXCEPT ![Obj] = T]
  /\ events' = <<>>
  /\ lastOp' = Op("mover_rebind", Obj, "-", T, <<>>)
  /\ UNCHANGED <<kind, status, storage, ctorN, dtorN, valueOps, onlyValueOps, hist, trait, twin>>

\* mover(std::move(obj), &dst), dst holding no object
MoverCall ==
  /\ nOps < MaxOps
  /\ nOps' = nOps + 1
  /\ storage[Obj].life = "live"
  /\ storage[Tmp].life # "live"
  /\ Commit(Invoke(Cur, mover[Obj], Obj, Tmp, Defined))
  /\ lastOp' = Op("mover_call", Obj, Tmp, mover[Obj], <<>>)
  /\ UNCHANGED <<kind, status, valueOps, onlyValueOps, hist, twin>>

\* reinterpret_cast<Base &>(dst).~Base()
MoverDstDestroy ==
  /\ storage[Tmp].life = "live"
  /\ Commit(DtorRun(Cur, Tmp))
  /\ lastOp' = Op("dst_destroy", Tmp, "-", "-", <<>>)
  /\ UNCHANGED <<kind, status, valueOps, onlyValueOps, hist, nOps, twin>>

\* the local object is given a new value of its own type
MoverObjRefill(args) ==
  /\ nOps < MaxOps
  /\ nOps' = nOps + 1
  /\ storage' = [storage EXCEPT ![Obj] = New(storage[Obj].type, args)]
  /\ events' = <<>>
  /\ lastOp' = Op("obj_refill", Obj, "-", storage[Obj].type, args)
  /\ UNCHANGED <<kind, status, mover, ctorN, dtorN, valueOps, onlyValueOps, hist, trait, twin>>

NextMover ==
  \/ \E T \in Types : MoverRebind(T)
  \/ MoverCall
  \/ MoverDstDestroy
  \/ \E args \in ArgsOf(storage[Obj].type) : MoverObjRefill(args)

SpecMover == InitMover /\ [][NextMover]_vars

\* C11: a mover bound to Base, invoked on a Derived object, builds a Base
\* that carries only member i; member f is not relocated and stays in the
\* source. A mover bound to Derived builds a Derived with both members.
C11_SlicingReproducible ==
  [][Did({"mover_call"}) /\ storage[Obj].type = "Derived" =>
       /\ mover[Obj] = "Base" =>
            /\ Value(storage'[Tmp]) =
                 [type |-> "Base", i |-> storage[Obj].i, f |-> NoField]
            /\ Value(storage'[Obj]) =
                 [type |-> "Derived", i |-> NULL, f |-> storage[Obj].f]
       /\ mover[Obj] = "Derived" =>
            /\ Value(storage'[Tmp]) = Value(storage[Obj])
            /\ Value(storage'[Obj]) =
                 [type |-> "Derived", i |-> NULL, f |-> NULL]]_vars

\* Derived{1,1} went through a Base-bound mover: dst is Base{1}, f stayed
C11_Witness ==
  /\ lastOp = Op("mover_call", Obj, Tmp, "Base", <<>>)
  /\ Value(storage[Obj]) = [type |-> "Derived", i |-> NULL, f |-> 1]
  /\ Value(storage[Tmp]) = [type |-> "Base", i |-> 1, f |-> NoField]
  /\ storage[Tmp].life = "live"

\* ------------------------------------------- the traits, evaluated on types
\* the subtypes offered to a container: those deriving from Base
Offered == {T \in Subtypes : T.base = "Base"}

\* The instantiations examined: one per initial state, not yet evaluated.
Queries ==
  [name : {"is_storable"}, T : Layouts, Storage : Layouts,
   done : {FALSE}, value : {FALSE}]
  \cup [name : {"is_movable"}, T : Bases, Mover : Movers,
        A : {S \in Subtypes : S.layout = BaseLayout},
        done : {FALSE}, value : {FALSE}]
  \cup [name : {"can_handle"}, cfg : Configs, T : Subtypes,
        done : {FALSE}, value : {FALSE}]
  \cup [name : {"admit"}, op : {"construct", "assign"}, cfg : Configs,
        T : Offered, how : {"nothrow"}, done : {FALSE}, value : {FALSE}]
  \cup [name : {"admit"}, op : {"in_place", "emplace"}, cfg : Configs,
        T : Offered, how : Constructible, done : {FALSE}, value : {FALSE}]

InitTraits ==
  /\ kind \in Kinds
  /\ status = [c \in Conts |-> "none"]
  /\ storage = [l \in Locs |-> RawSlot]
  /\ mover = [c \in Conts |-> Unbound]
  /\ ctorN = [l \in Locs |-> 0]
  /\ dtorN = [l \in Locs |-> 0]
  /\ valueOps = [c \in Conts |-> 0]
  /\ onlyValueOps = [c \in Conts |-> TRUE]
  /\ events = <<>>
  /\ lastOp = Op("init", "-", "-", "-", <<>>)
  /\ hist = NoHist
  /\ nOps = 0
  /\ trait \in Queries
  /\ twin = NoTwin

Answer(v) ==
  /\ ~trait.done
  /\ trait' = [trait EXCEPT !.done = TRUE, !.value = v]
  /\ UNCHANGED <<kind, status, storage, mover, ctorN, dtorN, valueOps,
                 onlyValueOps, events, lastOp, hist, nOps, twin>>

Eval_is_storable ==
  /\ trait.name = "is_storable"
  /\ Answer(is_storable(trait.T, trait.Storage))

Eval_is_movable ==
  /\ trait.name = "is_movable"
  /\ Answer(is_movable(trait.T, trait.Mover, trait.A))

Eval_can_handle ==
  /\ trait.name = "can_handle"
  /\ Answer(can_handle(trait.cfg, trait.T))

\* does `PolyBase x{Derived{...}}` / `x = Derived{...}` compile
Admit_value ==
  /\ trait.name = "admit" /\ trait.op \in {"construct", "assign"}
  /\ Answer(admits_value(trait.cfg, trait.T))

\* does `PolyBase x{std::in_place_type_t<Derived>{}, args...}` compile
Admit_in_place ==
  /\ trait.name = "admit" /\ trait.op = "in_place"
  /\ Answer(admits_in_place(trait.cfg, trait.T, trait.how))

\* does `x.emplace<Derived>(args...)` compile
Admit_emplace ==
  /\ trait.name = "admit" /\ trait.op = "emplace"
  /\ Answer(admits_emplace(trait.cfg, trait.T, trait.how))

NextTraits ==
  \/ Eval_is_storable
  \/ Eval_is_movable
  \/ Eval_can_handle
  \/ Admit_value
  \/ Admit_in_place
  \/ Admit_emplace

SpecTraits == InitTraits /\ [][NextTraits]_vars

\* -------------------------------------------------- properties of the traits
Answered(name) == trait.name = name /\ trait.done

\* what can_handle is said to demand of the subtype T for the container cfg
Admissible(cfg, T) ==
  /\ T.nothrow_move
  /\ T.base = "Base"
  /\ is_movable("Base", cfg.mover, T)
  /\ T.layout.size <= cfg.storage.size
  /\ cfg.storage.align % T.layout.align = 0
  /\ cfg.storage.trivial

\* C12: is_storable(T, Storage) is true exactly when T is no larger than
\* Storage, Storage's alignment is a multiple of T's and Storage is trivial;
\* whether T itself is trivial plays no part.
C12_StorableIffFits ==
  Answered("is_storable") =>
    /\ trait.value = (/\ trait.T.size <= trait.Storage.size
                      /\ trait.Storage.align % trait.T.align = 0
                      /\ trait.Storage.trivial)
    /\ trait.value = is_storable([trait.T EXCEPT !.trivial = ~@], trait.Storage)

C12_Witness ==
  /\ Answered("is_storable")
  /\ ~trait.T.trivial
  /\ trait.T.size = trait.Storage.size
  /\ trait.T.align = 2 /\ trait.Storage.align = 4
  /\ trait.value

\* C13: can_handle<T> is true exactly when T is nothrow move constructible,
\* derives from Base, is movable by the mover and storable in the storage; a
\* T larger than the storage is refused; construction from a value, in-place
\* construction, assignment and emplace compile only for a T it accepts.
C13_CanHandleGatesAdmission ==
  /\ Answered("can_handle") =>
       /\ trait.value = Admissible(trait.cfg, trait.T)
       /\ trait.T.layout.size > trait.cfg.storage.size => ~trait.value
  /\ Answered("admit") /\ trait.value => Admissible(trait.cfg, trait.T)

C13_Witness ==
  /\ Answered("can_handle")
  /\ trait.cfg.mover = UniversalMover
  /\ trait.T.nothrow_move /\ trait.T.base = "Base"
  /\ trait.T.layout.align = trait.cfg.storage.align
  /\ trait.T.layout.size > trait.cfg.storage.size
  /\ ~trait.value

\* C14 as stated: in-place construction, like emplace, refuses a T whose
\* constructor from the arguments may throw.
C14_InPlaceRequiresNothrow ==
  Answered("admit") /\ trait.op \in {"in_place", "emplace"} /\ trait.how # "nothrow"
    => ~trait.value

\* C14 amended: in-place construction admits any admissible T constructible
\* from the arguments, throwing or not; only emplace demands a noexcept
\* constructor.
C14_OnlyEmplaceRequiresNothrow ==
  Answered("admit") =>
    /\ trait.op = "in_place" =>
         trait.value = (trait.how # "no" /\ Admissible(trait.cfg, trait.T))
    /\ trait.op = "emplace" =>
         trait.value = (trait.how = "nothrow" /\ Admissible(trait.cfg, trait.T))

C14_Witness ==
  /\ Answered("admit")
  /\ trait.op = "in_place"
  /\ trait.how = "throwing"
  /\ trait.cfg.mover = UniversalMover
  /\ trait.value

\* C15 as stated: is_movable with a stateful mover is false for an A that is
\* not nothrow move constructible.
C15_IsMovableChecksMoveCtor ==
  Answered("is_movable") /\ ~trait.Mover.empty /\ ~trait.A.nothrow_move
    => ~trait.value

\* C15 amended: it is can_handle that is false for a subtype that is not
\* nothrow move constructible, whatever the mover; is_movable gives the same
\* answer whether or not A is nothrow move constructible.
C15_CanHandleChecksMoveCtor ==
  /\ Answered("can_handle") /\ ~trait.T.nothrow_move => ~trait.value
  /\ Answered("is_movable") =>
       trait.value = is_movable(trait.T, trait.Mover,
                                [trait.A EXCEPT !.nothrow_move = ~@])

C15_Witness ==
  /\ Answered("can_handle")
  /\ trait.cfg.mover = UniversalMover
  /\ ~trait.T.nothrow_move
  /\ is_movable("Base", trait.cfg.mover, trait.T)
  /\ is_storable(trait.T.layout, trait.cfg.storage)
  /\ ~trait.value

\* C16: is_movable<T, Mover, A> is true exactly when Mover is nothrow
\* destructible and nothrow callable with a T, A derives from T, and Mover is
\* empty or else nothrow copy assignable and nothrow constructible from an
\* A const *.
C16_MovableIff ==
  Answered("is_movable") =>
    LET M == trait.Mover IN
    /\ trait.value =
         (/\ M.destructible
          /\ M.takes = trait.T /\ M.call_noexcept
          /\ trait.A.base = trait.T
          /\ (M.empty \/ (M.copy_assignable /\ M.witness_ctor)))
    /\ ~M.call_noexcept => ~trait.value
    /\ M.takes # trait.T => ~trait.value
    /\ trait.A.base # trait.T => ~trait.value
    /\ ~M.empty /\ (~M.copy_assignable \/ ~M.witness_ctor) => ~trait.value

C16_Witness ==
  /\ Answered("is_movable")
  /\ trait.Mover.empty
  /\ ~trait.Mover.copy_assignable /\ ~trait.Mover.witness_ctor
  /\ trait.value

\* ------------------------------------------ more properties of the container
\* positions in the last operation's statement order of the events named ev
EventsOf(es, ev) == {k \in 1..Len(es) : es[k].ev = ev}

\* C18: operator=(Derived) and emplace<Derived> destroy the stored object,
\* alive until then, by one virtual destructor call made inside the
\* operation and before the new object is built; on return the storage holds
\* a live object of type Derived and get() yields the new value.
C18_ReplacedWithinCall ==
  [][Did({"assign", "emplace"}) =>
       LET c == lastOp'.this
           T == lastOp'.type
           dt == EventsOf(events', "dtor")
           ct == EventsOf(events', "ctor")
       IN /\ storage[c].life = "live"
          /\ Cardinality(dt) = 1 /\ Cardinality(ct) = 1
          /\ \A d \in dt : /\ events'[d] = [ev |-> "dtor", loc |-> c, on |-> "live"]
                           /\ \A k \in ct : d < k /\ events'[k].loc = c
          /\ dtorN'[c] = dtorN[c] + 1
          /\ storage'[c].life = "live"
          /\ storage'[c].type = T
          /\ Value(storage'[c]) = Value(New(T, lastOp'.args))]_vars

C18_Witness ==
  /\ LastIs({"emplace"})
  /\ lastOp.this = "a" /\ lastOp.type = "Derived"
  /\ valueOps["a"] = 2 /\ nOps = 2
  /\ dtorN["a"] = 1 /\ ctorN["a"] = 2
  /\ get(Cur, "a") = [type |-> "Derived", i |-> 1, f |-> 1]
  /\ events[2] = [ev |-> "dtor", loc |-> "a", on |-> "live"]

\* the containers an operation names
Operands(op) == {op.this, op.other} \cap Conts

\* C19: the move constructor and operator=(BoundedPoly &&) leave other with
\* the dynamic type and the mover it had, and an operation leaves the type,
\* value and mover of every container it does not name as they were.
C19_OtherKeepsTypeAndMover ==
  [][/\ Did({"move_construct", "assign_move"}) =>
          LET o == lastOp'.other
          IN /\ storage'[o].type = storage[o].type
             /\ mover'[o] = mover[o]
     /\ \A x \in Conts \ Operands(lastOp') :
          /\ Value(storage'[x]) = Value(storage[x])
          /\ mover'[x] = mover[x]]_vars

\* the mover invocations of the last operation, in statement order
Moves(es) == SelectSeq(es, LAMBDA e : e.ev = "move")

\* mover(std::move(*from), &to) made with the mover state mv
MoveBy(e, from, to, mv) == e.loc = from /\ e.to = to /\ e.with = mv

\* C20: every mover invocation of the move constructor, of
\* operator=(BoundedPoly &&) and of swap move-constructs the dynamic type of
\* the object it relocates; swap relocates this to tmp and tmp to other with
\* this->mover_ and other to this with other.mover_, as they were before the
\* call, and exchanges the movers afterwards; the relocated value keeps its
\* type.
C20_MoverMatchesRelocatedType ==
  [][Did({"move_construct", "assign_move", "swap"}) =>
       LET c == lastOp'.this
           o == lastOp'.other
           mv == Moves(events')
       IN /\ \A k \in 1..Len(mv) : mv[k].as = mv[k].dyn
          /\ lastOp'.op # "swap" =>
               /\ Len(mv) = 1
               /\ MoveBy(mv[1], o, c, mover[o])
               /\ storage'[c].type = storage[o].type
          /\ lastOp'.op = "swap" =>
               /\ Len(mv) = 3
               /\ MoveBy(mv[1], c, Tmp, mover[c])
               /\ MoveBy(mv[2], o, c, mover[o])
               /\ MoveBy(mv[3], Tmp, o, mover[c])
               /\ mover'[c] = mover[o] /\ mover'[o] = mover[c]
               /\ c # o => /\ storage'[c].type = storage[o].type
                           /\ storage'[o].type = storage[c].type]_vars

\* ------------------------------------- the two mover kinds, side by side
\* BoundedPoly<Storage, Base> containers a, b and, in twin, BoundedPolyVM
\* containers a, b that undergo the same calls.
InitTwin ==
  /\ kind = "universal"
  /\ status = [c \in Conts |-> "none"]
  /\ storage = [l \in Locs |-> RawSlot]
  /\ mover = [c \in Conts |-> Unbound]
  /\ ctorN = [l \in Locs |-> 0]
  /\ dtorN = [l \in Locs |-> 0]
  /\ valueOps = [c \in Conts |-> 0]
  /\ onlyValueOps = [c \in Conts |-> TRUE]
  /\ events = <<>>
  /\ lastOp = Op("init", "-", "-", "-", <<>>)
  /\ hist = NoHist
  /\ nOps = 0
  /\ trait = NoTrait
  /\ twin = [kind |-> "virtual",
             storage |-> [l \in Locs |-> RawSlot],
             mover |-> [c \in Conts |-> Unbound],
             ctorN |-> [l \in Locs |-> 0],
             dtorN |-> [l \in Locs |-> 0],
             events |-> <<>>]

SpecTwin == InitTwin /\ [][Next]_vars

\* the destructor calls among the events es
Dtors(es) == SelectSeq(es, LAMBDA e : e.ev = "dtor")

\* C17: after every operation the containers with the stateful mover and
\* those with the stateless mover hold objects of the same dynamic type and
\* state, and the operation has run the same destructor calls on both.
C17_SameUnderEitherMover ==
  twin # NoTwin =>
    /\ \A c \in Conts : /\ Value(storage[c]) = Value(twin.storage[c])
                        /\ storage[c].life = twin.storage[c].life
    /\ Dtors(events) = Dtors(twin.events)
    /\ dtorN = twin.dtorN

\* C21: no operation hands the mover, or destroys a second time, an object
\* whose destructor has already run; operator=(BoundedPoly &&), also with
\* other being this container, relocates a live object and leaves the
\* container holding a live object.
C21_NoUseAfterDestroy ==
  [][/\ \A k \in 1..Len(events') :
          /\ events'[k].ev = "move" => events'[k].on \in {"exact", "sliced"}
          /\ events'[k].ev = "dtor" => events'[k].on = "live"
     /\ Did({"assign_move"}) => storage'[lastOp'.this].life = "live"]_vars

====
